---------------------------- MODULE Spec2Model ----------------------------
(***************************************************************************)
(* The VPAID callback ad of src/VpaidCallbackAd.js as a state machine.     *)
(*                                                                         *)
(* State of the unit: slot_, videoSlot_, eventCallbacks_, attributes_.     *)
(* State of the host page the unit reads back: the set of element ids      *)
(* getElement_ can find (page), the value of the log sink element          *)
(* (lastVpaidEvent) and the click listeners the unit has added to the      *)
(* trigger button (clickListeners).                                        *)
(*                                                                         *)
(* Host handlers are recorders: an invocation appends a record to          *)
(* lastCalls and returns normally.  Every action is one whole call of a    *)
(* public method (or one operator click); lastOp, lastCalls, lastErr and   *)
(* ret describe that call: what was called, which handlers it invoked, in  *)
(* order, whether it ended in an uncaught TypeError, and what it returned; *)
(* seen is attributes_ as it stood when the handler was invoked.           *)
(* cleared and everSubscribed are history of the registry calls.           *)
(*                                                                         *)
(* Page objects the unit only writes and never reads back are left out:    *)
(* the slot's innerHTML, the spans' textContent, the option panels'        *)
(* style.display, document.body's children and the scroll listener.        *)
(***************************************************************************)
EXTENDS Integers, Sequences, FiniteSets, TLC

VARIABLES
    slot_,            \* this.slot_
    videoSlot_,       \* this.videoSlot_
    eventCallbacks_,  \* this.eventCallbacks_ : a function on the keys present
    attributes_,      \* this.attributes_
    page,             \* ids document.getElementById / parent.document finds
    lastVpaidEvent,   \* value of the log sink element
    clickListeners,   \* click listeners added to the triggerEvent button
    vocab,            \* event names the host passes to subscribe/unsubscribe
    lastOp,           \* history: the call just made, with its arguments
    lastCalls,        \* history: handler invocations made by that call
    lastErr,          \* history: "none" or "TypeError" (uncaught)
    ret,              \* history: value returned by that call
    seen,             \* history: attributes_ as the invoked handler finds it
    overwritten,      \* history: the registry value a subscribe call replaced
    cleared,          \* history: names whose latest registry call is unsubscribe
    everSubscribed    \* history: names ever passed to subscribe

vars == <<slot_, videoSlot_, eventCallbacks_, attributes_, page, lastVpaidEvent,
          clickListeners, vocab, lastOp, lastCalls, lastErr, ret, seen,
          overwritten, cleared, everSubscribed>>

unit == <<slot_, videoSlot_, eventCallbacks_, attributes_>>

-----------------------------------------------------------------------------
(* Values *)

NULL == "null"
UNDEFINED == "undefined"

Handlers == {"h1", "h2"}

LifecycleEvents ==
    {"AdLoaded", "AdStarted", "AdStopped", "AdVolumeChange", "AdSizeChange",
     "AdPaused", "AdResumed", "AdExpanded"}

InteractiveEvents == {"AdClickThru", "AdError", "AdLog", "AdInteraction"}

CheckedOnlyNames == {"AdStart", "AdStop"}

EventNames ==
    LifecycleEvents \cup {"AdSkipped"} \cup InteractiveEvents \cup CheckedOnlyNames

\* The names one host uses in one run.
Vocabularies ==
    {{e} : e \in EventNames}
      \cup {{"AdStart", "AdStarted"}, {"AdStop", "AdStopped"},
            {"AdStarted", "AdStopped"}}

AttributeKeys ==
    {"companions", "desiredBitrate", "duration", "expanded", "height", "icons",
     "linear", "remainingTime", "skippableState", "viewMode", "width", "volume"}

\* Order of `for (var key in this.attributes_)`: insertion order.
AttributeOrder ==
    <<"companions", "desiredBitrate", "duration", "expanded", "height", "icons",
      "linear", "remainingTime", "skippableState", "viewMode", "width", "volume">>

LogId == "lastVpaidEvent"
ControlIds == {"eventSelect", "triggerEvent"}
ClickThruIds == {"clickThruUrl", "clickThruId", "clickThruPlayerHandels"}
InputIds == ClickThruIds \cup {"adErrorMsg", "adLogMsg", "adInteractionId"}

\* The host pages considered: every element present; none; the log sink and
\* the two controls only.
FullPage == {LogId} \cup ControlIds \cup AttributeKeys \cup InputIds
EmptyPage == {}
ControlsOnlyPage == {LogId} \cup ControlIds

Pages == {FullPage, EmptyPage, ControlsOnlyPage}

\* Inputs of the calls.
Widths == {300}
Heights == {250}
ViewModes == {"fullscreen"}
Bitrates == {512}
Volumes == {0, 100}
Slots == {NULL, "hostDiv"}
VideoSlots == {NULL}
HostVersions == {"", "1.0", "2.0"}

\* What the operator has typed in the input fields.
Urls == {"url1"}
Ids == {"id1"}
PlayerHandles == {"handles1"}
ErrorMsgs == {"error1"}
LogMsgs == {"log1"}
InteractionIds == {"interaction1"}

MaxListeners == 2

-----------------------------------------------------------------------------
(* The constructor *)

InitialAttributes ==
    [companions |-> "", desiredBitrate |-> 256, duration |-> 30,
     expanded |-> FALSE, height |-> 0, icons |-> "", linear |-> TRUE,
     remainingTime |-> 10, skippableState |-> FALSE, viewMode |-> "normal",
     width |-> 0, volume |-> 50]

\* this.eventCallbacks_ = {}
EmptyRegistry == [k \in {} |-> NULL]

NoOp == [op |-> "new", args |-> <<>>]

\* The state after `new VpaidAd()`, on one of `pages`, for a host that uses
\* one of `vocabs`, the attributes being one of `attrs`.
Constructed(attrs, pages, vocabs) ==
    /\ slot_ = NULL
    /\ videoSlot_ = NULL
    /\ eventCallbacks_ = EmptyRegistry
    /\ attributes_ \in attrs
    /\ page \in pages
    /\ lastVpaidEvent = [text |-> "", vals |-> <<>>]
    /\ clickListeners = 0
    /\ vocab \in vocabs
    /\ lastOp = NoOp
    /\ lastCalls = <<>>
    /\ lastErr = "none"
    /\ ret = UNDEFINED
    /\ seen = UNDEFINED
    /\ overwritten = UNDEFINED
    /\ cleared = {}
    /\ everSubscribed = {}

Init == Constructed({InitialAttributes}, Pages, Vocabularies)

-----------------------------------------------------------------------------
(* Helpers *)

\* getElement_(key): the element, or null.
getElement_(key) == IF key \in page THEN key ELSE NULL

\* log(message): the value of the log sink after the call.
log(sink, message) == IF getElement_(LogId) # NULL THEN message ELSE sink

Msg(text, vals) == [text |-> text, vals |-> vals]

\* `name in this.eventCallbacks_`
HasKey(reg, name) == name \in DOMAIN reg

\* this.eventCallbacks_[name], undefined when the key is absent
Lookup(reg, name) == IF name \in DOMAIN reg THEN reg[name] ELSE UNDEFINED

\* typeof this.eventCallbacks_[eventName] === "function"
isEventSubscribed_(reg, eventName) == Lookup(reg, eventName) \in Handlers

\* this.eventCallbacks_[name] = value
Store(reg, name, value) ==
    [k \in DOMAIN reg \cup {name} |-> IF k = name THEN value ELSE reg[k]]

Call(name, handler, args) == [key |-> name, handler |-> handler, args |-> args]

NoEmission == [calls |-> <<>>, err |-> "none"]

\* this.eventCallbacks_[name](args): a call of the stored function, or a
\* TypeError when the stored value is null or undefined.
Invoke(reg, name, args) ==
    IF Lookup(reg, name) \in Handlers
    THEN [calls |-> <<Call(name, reg[name], args)>>, err |-> "none"]
    ELSE [calls |-> <<>>, err |-> "TypeError"]

\* if (checked in this.eventCallbacks_) { this.eventCallbacks_[invoked](); }
EmitIfKey(reg, checked, invoked) ==
    IF HasKey(reg, checked) THEN Invoke(reg, invoked, <<>>) ELSE NoEmission

TypeError == [calls |-> <<>>, err |-> "TypeError"]

\* What every call leaves in the history variables and in the log sink.
Recorded(op, args, em, value, sink, over) ==
    /\ lastOp' = [op |-> op, args |-> args]
    /\ lastCalls' = em.calls
    /\ lastErr' = em.err
    /\ ret' = value
    /\ lastVpaidEvent' = sink
    /\ overwritten' = over

\* What a handler invoked by the emission `em` finds in attributes_, when
\* attributes_ is `attrs` at the line that invokes it.
Observed(em, attrs) == seen' = IF em.calls = <<>> THEN UNDEFINED ELSE attrs

\* A call whose emission comes when attributes_ is `attrs`.
Emits(op, args, em, value, sink, attrs) ==
    /\ Recorded(op, args, em, value, sink, UNDEFINED)
    /\ Observed(em, attrs)

\* A call that leaves attributes_ as it is.
Returns(op, args, em, value, sink) ==
    Emits(op, args, em, value, sink, attributes_)

-----------------------------------------------------------------------------
(* Callback registry *)

\* A subscribe that keeps the handler already registered under the name.
Subscribed_KeepsFirst(reg, aCallback, eventName) ==
    IF isEventSubscribed_(reg, eventName) THEN reg ELSE Store(reg, eventName, aCallback)

\* subscribe, line 274
Subscribed(reg, aCallback, eventName) == Store(reg, eventName, aCallback)

subscribe(aCallback, eventName) ==
    /\ eventName \in vocab
    /\ eventCallbacks_' = Subscribed(eventCallbacks_, aCallback, eventName)
    /\ cleared' = cleared \ {eventName}
    /\ everSubscribed' = everSubscribed \cup {eventName}
    /\ Recorded("subscribe", <<aCallback, eventName>>, NoEmission, UNDEFINED,
                log(lastVpaidEvent, Msg("Subscribe", <<aCallback>>)),
                Lookup(eventCallbacks_, eventName))
    /\ Observed(NoEmission, attributes_)
    /\ UNCHANGED <<slot_, videoSlot_, attributes_, page, clickListeners, vocab>>

\* An unsubscribe that leaves the registry as it is.
Unsubscribed_Forgets(reg, eventName) == reg

\* An unsubscribe that deletes the key.
Unsubscribed_Deletes(reg, eventName) == [k \in DOMAIN reg \ {eventName} |-> reg[k]]

\* unsubscribe, line 284
Unsubscribed(reg, eventName) == Store(reg, eventName, NULL)

unsubscribe(eventName) ==
    /\ eventName \in vocab
    /\ eventCallbacks_' = Unsubscribed(eventCallbacks_, eventName)
    /\ cleared' = cleared \cup {eventName}
    /\ Returns("unsubscribe", <<eventName>>, NoEmission, UNDEFINED,
               log(lastVpaidEvent, Msg("unsubscribe", <<eventName>>)))
    /\ UNCHANGED <<slot_, videoSlot_, attributes_, page, clickListeners, vocab,
                   everSubscribed>>

-----------------------------------------------------------------------------
(* initAd *)

\* An initAd that writes the height under a misspelt key.
InitAttributes_Typo(attrs, width, height, viewMode, desiredBitrate) ==
    [k \in DOMAIN attrs \cup {"heigth"} |->
        IF k = "heigth" THEN height
        ELSE IF k = "width" THEN width
        ELSE IF k = "viewMode" THEN viewMode
        ELSE IF k = "desiredBitrate" THEN desiredBitrate
        ELSE attrs[k]]

\* An initAd that also makes the ad skippable.
InitAttributes_Skippable(attrs, width, height, viewMode, desiredBitrate) ==
    [attrs EXCEPT !.width = width, !.height = height, !.viewMode = viewMode,
                  !.desiredBitrate = desiredBitrate, !.skippableState = TRUE]

\* lines 65-68
InitAttributes(attrs, width, height, viewMode, desiredBitrate) ==
    [attrs EXCEPT !.width = width, !.height = height, !.viewMode = viewMode,
                  !.desiredBitrate = desiredBitrate]

\* renderSlot_: the slot after the call
renderSlot_(slot) == IF slot = "hostDiv" THEN slot ELSE "ownDiv"

\* addButtonListeners_: completes only when both controls are found
addButtonListenersOk == getElement_("eventSelect") # NULL /\ getElement_("triggerEvent") # NULL

\* fillProperties_: completes only when every attribute has its span
fillPropertiesOk ==
    \A i \in 1..Len(AttributeOrder) : getElement_(AttributeOrder[i]) # NULL

\* lines 74-76: the emission initAd ends with, or the TypeError that ends it
initEmission(reg) ==
    IF ~addButtonListenersOk THEN TypeError
    ELSE IF ~fillPropertiesOk THEN TypeError
    ELSE Invoke(reg, "AdLoaded", <<>>)

\* attributes_ at line 76: lines 65-68 have run
AtLoadedEmission(attrs, width, height, viewMode, desiredBitrate) ==
    InitAttributes(attrs, width, height, viewMode, desiredBitrate)

initAd(width, height, viewMode, desiredBitrate, slot, videoSlot) ==
    /\ clickListeners < MaxListeners
    /\ slot_' = renderSlot_(slot)
    /\ videoSlot_' = videoSlot
    /\ attributes_' = InitAttributes(attributes_, width, height, viewMode, desiredBitrate)
    /\ clickListeners' = IF addButtonListenersOk THEN clickListeners + 1 ELSE clickListeners
    /\ Emits("initAd", <<width, height, viewMode, desiredBitrate>>,
             initEmission(eventCallbacks_), UNDEFINED,
             log(lastVpaidEvent, Msg("initAd", <<width, height, viewMode, desiredBitrate>>)),
             AtLoadedEmission(attributes_, width, height, viewMode, desiredBitrate))
    /\ UNCHANGED <<eventCallbacks_, page, vocab, cleared, everSubscribed>>

-----------------------------------------------------------------------------
(* Lifecycle calls *)

startEmission(reg) == EmitIfKey(reg, "AdStart", "AdStarted")

startAd ==
    /\ Returns("startAd", <<>>, startEmission(eventCallbacks_), UNDEFINED,
               log(lastVpaidEvent, Msg("Starting ad", <<>>)))
    /\ UNCHANGED <<unit, page, clickListeners, vocab, cleared, everSubscribed>>

stopEmission(reg) == EmitIfKey(reg, "AdStop", "AdStopped")

stopAd ==
    /\ Returns("stopAd", <<>>, stopEmission(eventCallbacks_), UNDEFINED,
               log(lastVpaidEvent, Msg("Stopping ad", <<>>)))
    /\ UNCHANGED <<unit, page, clickListeners, vocab, cleared, everSubscribed>>

\* A setAdVolume that stores the volume as a fraction of 100.
WithVolume_Scaled(attrs, value) == [attrs EXCEPT !.volume = value \div 100]

\* line 161
WithVolume(attrs, value) == [attrs EXCEPT !.volume = value]

volumeEmission(reg) == EmitIfKey(reg, "AdVolumeChange", "AdVolumeChange")

\* A setAdVolume that emits before it stores the volume.
AtVolumeEmission_Before(attrs, value) == attrs

\* attributes_ at line 164: line 161 has run
AtVolumeEmission(attrs, value) == WithVolume(attrs, value)

setAdVolume(value) ==
    /\ attributes_' = WithVolume(attributes_, value)
    /\ Emits("setAdVolume", <<value>>, volumeEmission(eventCallbacks_), UNDEFINED,
             log(lastVpaidEvent, Msg("setAdVolume", <<value>>)),
             AtVolumeEmission(attributes_, value))
    /\ UNCHANGED <<slot_, videoSlot_, eventCallbacks_, page, clickListeners, vocab,
                   cleared, everSubscribed>>

\* lines 183-185
Resized(attrs, width, height, viewMode) ==
    [attrs EXCEPT !.width = width, !.height = height, !.viewMode = viewMode]

sizeEmission(reg) == EmitIfKey(reg, "AdSizeChange", "AdSizeChange")

\* attributes_ at line 187: lines 183-185 have run
AtSizeEmission(attrs, width, height, viewMode) == Resized(attrs, width, height, viewMode)

resizeAd(width, height, viewMode) ==
    /\ attributes_' = Resized(attributes_, width, height, viewMode)
    /\ Emits("resizeAd", <<width, height, viewMode>>, sizeEmission(eventCallbacks_),
             UNDEFINED,
             log(lastVpaidEvent, Msg("resizeAd", <<width, height, viewMode>>)),
             AtSizeEmission(attributes_, width, height, viewMode))
    /\ UNCHANGED <<slot_, videoSlot_, eventCallbacks_, page, clickListeners, vocab,
                   cleared, everSubscribed>>

\* A pauseAd that emits twice.
pauseEmission_Twice(reg) ==
    [calls |-> EmitIfKey(reg, "AdPaused", "AdPaused").calls
                  \o EmitIfKey(reg, "AdPaused", "AdPaused").calls,
     err |-> EmitIfKey(reg, "AdPaused", "AdPaused").err]

pauseEmission(reg) == EmitIfKey(reg, "AdPaused", "AdPaused")

pauseAd ==
    /\ Returns("pauseAd", <<>>, pauseEmission(eventCallbacks_), UNDEFINED,
               log(lastVpaidEvent, Msg("pauseAd", <<>>)))
    /\ UNCHANGED <<unit, page, clickListeners, vocab, cleared, everSubscribed>>

resumeEmission(reg) == EmitIfKey(reg, "AdResumed", "AdResumed")

resumeAd ==
    /\ Returns("resumeAd", <<>>, resumeEmission(eventCallbacks_), UNDEFINED,
               log(lastVpaidEvent, Msg("resumeAd", <<>>)))
    /\ UNCHANGED <<unit, page, clickListeners, vocab, cleared, everSubscribed>>

\* lines 216 and 247
WithExpanded(attrs, value) == [attrs EXCEPT !.expanded = value]

expandEmission(reg) == EmitIfKey(reg, "AdExpanded", "AdExpanded")

\* attributes_ at line 218: line 216 has run
AtExpandedEmission(attrs) == WithExpanded(attrs, TRUE)

expandAd ==
    /\ attributes_' = WithExpanded(attributes_, TRUE)
    /\ Emits("expandAd", <<>>, expandEmission(eventCallbacks_), UNDEFINED,
             log(lastVpaidEvent, Msg("expandAd", <<>>)),
             AtExpandedEmission(attributes_))
    /\ UNCHANGED <<slot_, videoSlot_, eventCallbacks_, page, clickListeners, vocab,
                   cleared, everSubscribed>>

\* A collapseAd that emits like expandAd.
collapseEmission_Emits(reg) == EmitIfKey(reg, "AdExpanded", "AdExpanded")

collapseEmission(reg) == NoEmission

collapseAd ==
    /\ attributes_' = WithExpanded(attributes_, FALSE)
    /\ Emits("collapseAd", <<>>, collapseEmission(eventCallbacks_), UNDEFINED,
             log(lastVpaidEvent, Msg("collapseAd", <<>>)),
             WithExpanded(attributes_, FALSE))
    /\ UNCHANGED <<slot_, videoSlot_, eventCallbacks_, page, clickListeners, vocab,
                   cleared, everSubscribed>>

\* A skipAd that does not look at skippableState.
skipEmission_Unchecked(attrs, reg) ==
    IF HasKey(reg, "AdSkipped") THEN Invoke(reg, "AdSkipped", <<>>) ELSE NoEmission

\* lines 255-262: the emission of skipAd
skipEmission(attrs, reg) ==
    IF attrs.skippableState /\ HasKey(reg, "AdSkipped")
    THEN Invoke(reg, "AdSkipped", <<>>)
    ELSE NoEmission

\* lines 254-262: the log sink after skipAd
skipLog(attrs, reg, sink) ==
    IF attrs.skippableState /\ ~HasKey(reg, "AdSkipped")
    THEN log(sink, Msg("Error: Invalid ad skip request.", <<>>))
    ELSE log(sink, Msg("skipAd", <<>>))

skipAd ==
    /\ Returns("skipAd", <<>>, skipEmission(attributes_, eventCallbacks_), UNDEFINED,
               skipLog(attributes_, eventCallbacks_, lastVpaidEvent))
    /\ UNCHANGED <<unit, page, clickListeners, vocab, cleared, everSubscribed>>

-----------------------------------------------------------------------------
(* Operator-triggered events *)

\* One run of an interactive handler (adClickThruHandler_, adErrorHandler_,
\* adLogHandler_, adInteractionHandler_): `ids` are the input elements it reads,
\* in order, `entered` their values, `missing` and `shown` its two log texts.
Interactive(reg, sink, eventName, ids, entered, missing, shown) ==
    IF ~isEventSubscribed_(reg, eventName)
    THEN [calls |-> <<>>, err |-> "none", sink |-> log(sink, Msg(missing, <<>>))]
    ELSE IF \E i \in 1..Len(ids) : getElement_(ids[i]) = NULL
    THEN [calls |-> <<>>, err |-> "TypeError", sink |-> sink]
    ELSE [calls |-> <<Call(eventName, reg[eventName], entered)>>, err |-> "none",
          sink |-> log(sink, Msg(shown, entered))]

adClickThruHandler_(reg, sink, entered) ==
    Interactive(reg, sink, "AdClickThru",
                <<"clickThruUrl", "clickThruId", "clickThruPlayerHandels">>, entered,
                "Error: AdClickThru function callback not subscribed.", "AdClickThu")

adErrorHandler_(reg, sink, entered) ==
    Interactive(reg, sink, "AdError", <<"adErrorMsg">>, entered,
                "AdError function callback not subscribed.", "adError")

adLogHandler_(reg, sink, entered) ==
    Interactive(reg, sink, "AdLog", <<"adLogMsg">>, entered,
                "Error: AdLog function callback not subscribed.", "adLog")

adInteractionHandler_(reg, sink, entered) ==
    Interactive(reg, sink, "AdInteraction", <<"adInteractionId">>, entered,
                "Error: AdInteraction function callback not subscribed.", "adLog")

\* triggerEvent_: one run, with `value` the value of the event selector
triggerEvent_(reg, sink, value, entered) ==
    IF getElement_("eventSelect") = NULL
    THEN [calls |-> <<>>, err |-> "TypeError", sink |-> sink]
    ELSE IF value = "AdClickThru" THEN adClickThruHandler_(reg, sink, entered)
    ELSE IF value = "AdError" THEN adErrorHandler_(reg, sink, entered)
    ELSE IF value = "AdLog" THEN adLogHandler_(reg, sink, entered)
    ELSE IF value = "AdInteraction" THEN adInteractionHandler_(reg, sink, entered)
    ELSE IF HasKey(reg, value)
    THEN [calls |-> Invoke(reg, value, <<>>).calls,
          err |-> Invoke(reg, value, <<>>).err, sink |-> sink]
    ELSE [calls |-> <<>>, err |-> "none", sink |-> sink]

\* The values the operator has entered in the fields the selected event reads.
Entered(value) ==
    IF value = "AdClickThru" THEN Urls \X Ids \X PlayerHandles
    ELSE IF value = "AdError" THEN {<<t>> : t \in ErrorMsgs}
    ELSE IF value = "AdLog" THEN {<<t>> : t \in LogMsgs}
    ELSE IF value = "AdInteraction" THEN {<<t>> : t \in InteractionIds}
    ELSE {<<>>}

\* The calls of `n` listeners that each make the calls `one` (at most one call).
Repeated(one, n) == [i \in 1..(n * Len(one)) |-> one[1]]

\* A click on the trigger button: every listener added by addButtonListeners_
\* (line 105) runs triggerEvent_; an exception in a listener is reported by the
\* page and does not stop the next listener.
click(value, entered) ==
    /\ clickListeners > 0
    /\ getElement_("triggerEvent") # NULL
    /\ LET one == triggerEvent_(eventCallbacks_, lastVpaidEvent, value, entered)
       IN Returns("click", <<value>> \o entered,
                  [calls |-> Repeated(one.calls, clickListeners), err |-> one.err],
                  UNDEFINED, one.sink)
    /\ UNCHANGED <<unit, page, clickListeners, vocab, cleared, everSubscribed>>

-----------------------------------------------------------------------------
(* Reads *)

\* A getter that returns the value the attribute was constructed with.
Getter_Default(op, key, sink) ==
    /\ Returns(op, <<>>, NoEmission, InitialAttributes[key], sink)
    /\ UNCHANGED <<unit, page, clickListeners, vocab, cleared, everSubscribed>>

\* A getter that returns attributes_[key]; `sink` is the log sink it leaves.
Getter(op, key, sink) ==
    /\ Returns(op, <<>>, NoEmission, attributes_[key], sink)
    /\ UNCHANGED <<unit, page, clickListeners, vocab, cleared, everSubscribed>>

getAdVolume ==
    Getter("getAdVolume", "volume", log(lastVpaidEvent, Msg("getAdVolume", <<>>)))

getAdExpanded ==
    Getter("getAdExpanded", "expanded", log(lastVpaidEvent, Msg("getAdExpanded", <<>>)))

getAdSkippableState ==
    Getter("getAdSkippableState", "skippableState",
           log(lastVpaidEvent, Msg("getAdSkippableState", <<>>)))

getAdWidth == Getter("getAdWidth", "width", lastVpaidEvent)

getAdHeight == Getter("getAdHeight", "height", lastVpaidEvent)

getAdRemainingTime == Getter("getAdRemainingTime", "remainingTime", lastVpaidEvent)

getAdDuration == Getter("getAdDuration", "duration", lastVpaidEvent)

getAdCompanions == Getter("getAdCompanions", "companions", lastVpaidEvent)

getAdIcons == Getter("getAdIcons", "icons", lastVpaidEvent)

getAdLinear == Getter("getAdLinear", "linear", lastVpaidEvent)

SupportedVersion == "2.0"

\* A handshakeVersion that agrees to the version the host asks for.
handshakeVersion_Echo(version) ==
    /\ Returns("handshakeVersion", <<version>>, NoEmission, version, lastVpaidEvent)
    /\ UNCHANGED <<unit, page, clickListeners, vocab, cleared, everSubscribed>>

handshakeVersion(version) ==
    /\ Returns("handshakeVersion", <<version>>, NoEmission, SupportedVersion,
               lastVpaidEvent)
    /\ UNCHANGED <<unit, page, clickListeners, vocab, cleared, everSubscribed>>

-----------------------------------------------------------------------------
(* The specification *)

\* The calls that write the unit or the log sink, and the operator's clicks.
\* The event selector holds one of the host's names.
Next ==
    \/ \E h \in Handlers, e \in EventNames : subscribe(h, e)
    \/ \E e \in EventNames : unsubscribe(e)
    \/ \E w \in Widths, h \in Heights, m \in ViewModes, b \in Bitrates,
          s \in Slots, v \in VideoSlots : initAd(w, h, m, b, s, v)
    \/ startAd
    \/ stopAd
    \/ \E v \in Volumes : setAdVolume(v)
    \/ \E w \in Widths, h \in Heights, m \in ViewModes : resizeAd(w, h, m)
    \/ pauseAd
    \/ resumeAd
    \/ expandAd
    \/ collapseAd
    \/ skipAd
    \/ \E value \in vocab :
          \E entered \in Entered(value) : click(value, entered)
    \/ getAdVolume
    \/ getAdExpanded
    \/ getAdSkippableState

Spec == Init /\ [][Next]_vars

\* skipAd as a function of the attribute it reads: the unit starts with
\* skippableState either way, for a host that uses AdSkipped.
SkipInit ==
    Constructed({[InitialAttributes EXCEPT !.skippableState = b] : b \in BOOLEAN},
                Pages, {{"AdSkipped"}})

SkipSpec == SkipInit /\ [][Next]_vars

\* The calls that read without writing the log sink, added to the others, for
\* a host that uses AdLoaded.
ReadsInit == Constructed({InitialAttributes}, Pages, {{"AdLoaded"}})

ReadsNext ==
    \/ Next
    \/ getAdWidth
    \/ getAdHeight
    \/ getAdRemainingTime
    \/ getAdDuration
    \/ getAdCompanions
    \/ getAdIcons
    \/ getAdLinear
    \/ \E v \in HostVersions : handshakeVersion(v)

ReadsSpec == ReadsInit /\ [][ReadsNext]_vars

-----------------------------------------------------------------------------
(* Properties *)

\* The call that emits each lifecycle event.
EmitterOf(e) ==
    CASE e = "AdLoaded" -> "initAd"
      [] e = "AdStarted" -> "startAd"
      [] e = "AdStopped" -> "stopAd"
      [] e = "AdVolumeChange" -> "setAdVolume"
      [] e = "AdSizeChange" -> "resizeAd"
      [] e = "AdPaused" -> "pauseAd"
      [] e = "AdResumed" -> "resumeAd"
      [] e = "AdExpanded" -> "expandAd"

\* The calls of the host (everything but the operator's click).
HostCalls ==
    {"subscribe", "unsubscribe", "initAd", "startAd", "stopAd", "pauseAd",
     "resumeAd", "resizeAd", "setAdVolume", "expandAd", "collapseAd", "skipAd"}

\* The positions of the invocations made under key e.
CallsUnder(calls, e) == {i \in 1..Len(calls) : calls[i].key = e}

\* C1: with a handler h registered under a lifecycle event E, the call that
\* emits E invokes h exactly once, and invokes nothing else.
C1_SubscribedHandlerInvokedOnce ==
    [][\A e \in LifecycleEvents :
          (isEventSubscribed_(eventCallbacks_, e) /\ lastOp'.op = EmitterOf(e))
             => lastCalls' = <<Call(e, eventCallbacks_[e], <<>>)>>]_vars

\* C2: once a lifecycle event E has been subscribed and then unsubscribed,
\* the call that emits E ends without an error.
C2_EmitAfterUnsubscribeNeverFails ==
    [][\A e \in LifecycleEvents :
          (e \in everSubscribed /\ e \in cleared /\ lastOp'.op = EmitterOf(e))
             => lastErr' = "none"]_vars

\* C3: from unsubscribe(E) until the next subscribe under E, no call and no
\* click invokes anything under E, and E holds no handler.
C3_NoInvocationAfterUnsubscribe ==
    [][\A e \in EventNames :
          e \in cleared
             => /\ CallsUnder(lastCalls', e) = {}
                /\ ~isEventSubscribed_(eventCallbacks_, e)]_vars

\* C3 witness: AdPaused was subscribed, then unsubscribed, and pauseAd has
\* been called since, invoking nothing.
C3_Witness ==
    /\ "AdPaused" \in everSubscribed
    /\ "AdPaused" \in cleared
    /\ lastOp.op = "pauseAd"
    /\ lastCalls = <<>>

\* C4: every initAd(w, h, mode, bitrate, ...) ends normally, invokes the
\* handler registered under AdLoaded exactly once, and leaves width, height,
\* viewMode and desiredBitrate equal to its arguments.
C4_InitAdEmitsLoadedAndStores ==
    lastOp.op = "initAd"
       => /\ lastErr = "none"
          /\ isEventSubscribed_(eventCallbacks_, "AdLoaded")
                => lastCalls = <<Call("AdLoaded", eventCallbacks_["AdLoaded"], <<>>)>>
          /\ attributes_.width = lastOp.args[1]
          /\ attributes_.height = lastOp.args[2]
          /\ attributes_.viewMode = lastOp.args[3]
          /\ attributes_.desiredBitrate = lastOp.args[4]

\* C5: no call of the host ever ends in an error.
C5_NoHostCallFails == lastOp.op \in HostCalls => lastErr = "none"

\* C6: given a handler registered under AdSkipped, skipAd invokes it (once)
\* if and only if skippableState is true; with skippableState false skipAd
\* invokes nothing, whatever the registry holds; skipAd never invokes a
\* handler of another event.
C6_SkipEmitsIffSkippable ==
    lastOp.op = "skipAd"
       => /\ isEventSubscribed_(eventCallbacks_, "AdSkipped")
                => (attributes_.skippableState
                      <=> lastCalls = <<Call("AdSkipped", eventCallbacks_["AdSkipped"], <<>>)>>)
          /\ ~attributes_.skippableState => lastCalls = <<>>
          /\ \A i \in 1..Len(lastCalls) : lastCalls[i].key = "AdSkipped"

\* C6 witness: skipAd was called with skippableState true and a handler
\* under AdSkipped, and invoked it.
C6_Witness ==
    /\ lastOp.op = "skipAd"
    /\ attributes_.skippableState
    /\ Len(lastCalls) = 1

\* C7: as long as the host has never subscribed under AdStart or AdStop,
\* startAd and stopAd invoke no handler.
C7_StartStopNeverInvoke ==
    (lastOp.op \in {"startAd", "stopAd"} /\ everSubscribed \cap CheckedOnlyNames = {})
       => lastCalls = <<>>

\* C8: setAdVolume(v) leaves volume = v, no other call changes volume, and
\* getAdVolume returns volume: so getAdVolume after setAdVolume(v) returns v.
C8_VolumeRoundTrip ==
    [][/\ lastOp'.op = "setAdVolume" => attributes_'.volume = lastOp'.args[1]
       /\ lastOp'.op # "setAdVolume" => attributes_'.volume = attributes_.volume
       /\ lastOp'.op = "getAdVolume" => ret' = attributes_.volume]_vars

\* C8 witness: getAdVolume returns 100 after a setAdVolume(100) that ended in
\* an error because AdVolumeChange had been unsubscribed.
C8_Witness ==
    /\ lastOp.op = "getAdVolume"
    /\ ret = 100
    /\ "AdVolumeChange" \in cleared

\* C9: expandAd leaves expanded true and, with a handler under AdExpanded,
\* invokes it exactly once; collapseAd leaves expanded false and invokes
\* nothing; getAdExpanded returns expanded and leaves it as it is.
C9_ExpandThenCollapse ==
    [][/\ lastOp'.op = "expandAd"
            => /\ attributes_'.expanded
               /\ isEventSubscribed_(eventCallbacks_, "AdExpanded")
                     => lastCalls' = <<Call("AdExpanded", eventCallbacks_["AdExpanded"], <<>>)>>
       /\ lastOp'.op = "collapseAd"
            => /\ ~attributes_'.expanded
               /\ lastCalls' = <<>>
       /\ lastOp'.op = "getAdExpanded"
            => /\ ret' = attributes_.expanded
               /\ attributes_' = attributes_
               /\ lastCalls' = <<>>]_vars

\* C9 witness: expandAd has just invoked the handler under AdExpanded.
C9_Witness ==
    /\ lastOp.op = "expandAd"
    /\ attributes_.expanded
    /\ Len(lastCalls) = 1
    /\ lastCalls[1].key = "AdExpanded"

\* The events whose call checks and invokes the same key, on any page.
SameKeyEvents ==
    {"AdVolumeChange", "AdSizeChange", "AdPaused", "AdResumed", "AdExpanded"}

\* C10: subscribe(h, E) leaves h under E, every other entry, the attributes
\* and the slots as they were, and invokes nothing; every invocation under a
\* name is of the handler registered under it at the time of the call; and
\* the call that emits a registered event invokes its handler once.
C10_SubscribeReplaces ==
    [][/\ lastOp'.op = "subscribe"
            => /\ DOMAIN eventCallbacks_' = DOMAIN eventCallbacks_ \cup {lastOp'.args[2]}
               /\ eventCallbacks_'[lastOp'.args[2]] = lastOp'.args[1]
               /\ \A k \in DOMAIN eventCallbacks_ \ {lastOp'.args[2]} :
                     eventCallbacks_'[k] = eventCallbacks_[k]
               /\ attributes_' = attributes_
               /\ slot_' = slot_
               /\ videoSlot_' = videoSlot_
               /\ lastCalls' = <<>>
       /\ \A i \in 1..Len(lastCalls') :
             /\ isEventSubscribed_(eventCallbacks_, lastCalls'[i].key)
             /\ lastCalls'[i].handler = eventCallbacks_[lastCalls'[i].key]
       /\ \A e \in SameKeyEvents :
             (isEventSubscribed_(eventCallbacks_, e) /\ lastOp'.op = EmitterOf(e))
                => Cardinality(CallsUnder(lastCalls', e)) = 1]_vars

\* C10 witness: subscribe has just put h2 where h1 was.
C10_Witness ==
    /\ lastOp.op = "subscribe"
    /\ overwritten = "h1"
    /\ eventCallbacks_[lastOp.args[2]] = "h2"

\* The message an interactive handler logs when nothing is subscribed.
NotSubscribedText(e) ==
    CASE e = "AdClickThru" -> "Error: AdClickThru function callback not subscribed."
      [] e = "AdError" -> "AdError function callback not subscribed."
      [] e = "AdLog" -> "Error: AdLog function callback not subscribed."
      [] e = "AdInteraction" -> "Error: AdInteraction function callback not subscribed."

\* C11: a click with an interactive event selected invokes the handler
\* registered under it once, with the values entered, and ends without error;
\* with no handler registered it invokes nothing, ends without error and
\* leaves the diagnostic message in the log sink.
C11_InteractiveDispatch ==
    [][\A e \in InteractiveEvents :
          (lastOp'.op = "click" /\ lastOp'.args[1] = e)
             => IF isEventSubscribed_(eventCallbacks_, e)
                THEN /\ lastErr' = "none"
                     /\ lastCalls' = <<Call(e, eventCallbacks_[e], Tail(lastOp'.args))>>
                ELSE /\ lastErr' = "none"
                     /\ lastCalls' = <<>>
                     /\ lastVpaidEvent'.text = NotSubscribedText(e)]_vars

\* C12: the attribute set always has exactly the twelve keys of the
\* constructor.
C12_AttributeKeysFixed == DOMAIN attributes_ = AttributeKeys

\* C12 witness: initAd has written its four attributes.
C12_Witness ==
    /\ lastOp.op = "initAd"
    /\ attributes_.width = 300
    /\ attributes_.height = 250
    /\ attributes_.desiredBitrate = 512

\* C13: handshakeVersion returns "2.0" for every version asked and in every
\* state, and leaves the attributes and the registry as they were.
C13_HandshakeFixed ==
    [][lastOp'.op = "handshakeVersion"
          => /\ ret' = "2.0"
             /\ lastCalls' = <<>>
             /\ attributes_' = attributes_
             /\ eventCallbacks_' = eventCallbacks_]_vars

\* C13 witness: handshakeVersion("") returned "2.0" after initAd.
C13_Witness ==
    /\ lastOp.op = "handshakeVersion"
    /\ lastOp.args[1] = ""
    /\ ret = "2.0"
    /\ slot_ # NULL

GetterKey(op) ==
    CASE op = "getAdVolume" -> "volume"
      [] op = "getAdSkippableState" -> "skippableState"
      [] op = "getAdWidth" -> "width"
      [] op = "getAdHeight" -> "height"
      [] op = "getAdDuration" -> "duration"
      [] op = "getAdRemainingTime" -> "remainingTime"
      [] op = "getAdCompanions" -> "companions"
      [] op = "getAdIcons" -> "icons"
      [] op = "getAdLinear" -> "linear"
      [] op = "getAdExpanded" -> "expanded"

Getters ==
    {"getAdVolume", "getAdSkippableState", "getAdWidth", "getAdHeight",
     "getAdDuration", "getAdRemainingTime", "getAdCompanions", "getAdIcons",
     "getAdLinear", "getAdExpanded"}

\* C15: each getter returns the current value of its attribute, invokes
\* nothing, ends without error and leaves the attributes, the registry and
\* the slots as they were.
C15_GettersArePureReads ==
    [][lastOp'.op \in Getters
          => /\ ret' = attributes_[GetterKey(lastOp'.op)]
             /\ lastCalls' = <<>>
             /\ lastErr' = "none"
             /\ attributes_' = attributes_
             /\ eventCallbacks_' = eventCallbacks_
             /\ slot_' = slot_
             /\ videoSlot_' = videoSlot_]_vars

\* C15 witness: getAdWidth returned the width initAd stored.
C15_Witness ==
    /\ lastOp.op = "getAdWidth"
    /\ ret = 300

\* The lifecycle calls, and the events each may emit.
LifecycleCalls ==
    {"initAd", "startAd", "stopAd", "setAdVolume", "resizeAd", "pauseAd",
     "resumeAd", "expandAd", "collapseAd", "skipAd"}

OwnEvents(op) ==
    {e \in LifecycleEvents : EmitterOf(e) = op}
       \cup (IF op = "skipAd" THEN {"AdSkipped"} ELSE {})

\* C16: a lifecycle call, in whatever order it comes, invokes at most one
\* handler, at most once, and only the one registered under its own event.
C16_AtMostOwnHandlerOnce ==
    lastOp.op \in LifecycleCalls
       => /\ Len(lastCalls) <= 1
          /\ \A i \in 1..Len(lastCalls) :
                /\ lastCalls[i].key \in OwnEvents(lastOp.op)
                /\ lastCalls[i].handler = eventCallbacks_[lastCalls[i].key]

\* C16 witness: startAd, called before any initAd, invoked a handler.
C16_Witness ==
    /\ lastOp.op = "startAd"
    /\ slot_ = NULL
    /\ clickListeners = 0
    /\ Len(lastCalls) = 1

\* C17: a handler invoked by a call finds attributes_ as the call leaves it:
\* the handlers of initAd, resizeAd, setAdVolume and expandAd are invoked
\* inside the call, after the attributes have been written, so a getter
\* called from the handler returns the new value.
C17_UpdateBeforeDispatch ==
    lastCalls # <<>>
       => /\ seen = attributes_
          /\ lastOp.op = "initAd"
                => /\ seen.width = lastOp.args[1]
                   /\ seen.height = lastOp.args[2]
                   /\ seen.viewMode = lastOp.args[3]
                   /\ seen.desiredBitrate = lastOp.args[4]
          /\ lastOp.op = "resizeAd"
                => /\ seen.width = lastOp.args[1]
                   /\ seen.height = lastOp.args[2]
                   /\ seen.viewMode = lastOp.args[3]
          /\ lastOp.op = "setAdVolume" => seen.volume = lastOp.args[1]
          /\ lastOp.op = "expandAd" => seen.expanded

\* C17 witness: the handler under AdVolumeChange, invoked by
\* setAdVolume(100), found volume = 100.
C17_Witness ==
    /\ lastOp.op = "setAdVolume"
    /\ lastOp.args[1] = 100
    /\ Len(lastCalls) = 1
    /\ seen.volume = 100

\* C18: an initAd that had to create its own container, with a handler under
\* AdLoaded, ends without error having stored its attributes and invoked
\* that handler once, on every page.
C18_FallbackInitCompletes ==
    (lastOp.op = "initAd" /\ slot_ = "ownDiv"
        /\ isEventSubscribed_(eventCallbacks_, "AdLoaded"))
       => /\ lastErr = "none"
          /\ lastCalls = <<Call("AdLoaded", eventCallbacks_["AdLoaded"], <<>>)>>
          /\ attributes_.width = lastOp.args[1]
          /\ attributes_.height = lastOp.args[2]

\* C19: skippableState, duration, remainingTime, linear, companions and
\* icons always hold their construction values, and skipAd invokes nothing.
C19_ReadOnlyAttributes ==
    /\ attributes_.skippableState = FALSE
    /\ attributes_.duration = 30
    /\ attributes_.remainingTime = 10
    /\ attributes_.linear = TRUE
    /\ attributes_.companions = ""
    /\ attributes_.icons = ""
    /\ lastOp.op = "skipAd" => lastCalls = <<>>

\* C19 witness: skipAd, called after initAd with a handler under AdSkipped,
\* invoked nothing.
C19_Witness ==
    /\ lastOp.op = "skipAd"
    /\ slot_ # NULL
    /\ isEventSubscribed_(eventCallbacks_, "AdSkipped")
    /\ lastCalls = <<>>

\* C20: no call removes a key of the registry; unsubscribe(E) leaves null
\* under E, creating the key when it was absent; every name passed to
\* subscribe or unsubscribe is a key from then on.
C20_KeysNeverShrink ==
    [][/\ DOMAIN eventCallbacks_ \subseteq DOMAIN eventCallbacks_'
       /\ lastOp'.op = "unsubscribe"
             => /\ HasKey(eventCallbacks_', lastOp'.args[1])
                /\ eventCallbacks_'[lastOp'.args[1]] = NULL
       /\ lastOp'.op = "subscribe" => HasKey(eventCallbacks_', lastOp'.args[2])
       /\ (cleared' \cup everSubscribed') \subseteq DOMAIN eventCallbacks_']_vars

\* C20 witness: unsubscribe of a name never subscribed has created its key,
\* and pauseAd has since found the key present and failed on it.
C20_Witness ==
    /\ "AdPaused" \in cleared
    /\ "AdPaused" \notin everSubscribed
    /\ HasKey(eventCallbacks_, "AdPaused")
    /\ lastOp.op = "pauseAd"
    /\ lastErr = "TypeError"

=============================================================================
